---- MODULE Spec2Model ----
(***************************************************************************)
(* Model of research-paper-assistant/backend/server.js: four Express       *)
(* handlers that relay a prompt to the Gemini API through one gateway and  *)
(* reshape the returned text (section segmentation, citation extraction).  *)
(*                                                                         *)
(* Strings the code inspects character by character are sequences of       *)
(* one-character strings; strings it only interpolates are TLA+ strings.   *)
(* A JavaScript value is a record tagged by its type in field t.           *)
(***************************************************************************)
EXTENDS Naturals, Sequences, FiniteSets

VARIABLES
    pc,              \* position of each request's handler
    endpoint,        \* the route the request was posted to
    body,            \* req.body
    params,          \* the argument of gemini.chat.completions.create
    outbound,        \* the POSTs sent to the provider for the request
    outcome,         \* how the provider call of the request ended
    content,         \* response.choices[0].message.content
    idx,             \* index of the forEach iteration of the segmenter
    currentSection,  \* let currentSection
    currentContent,  \* let currentContent
    sections,        \* const sections
    responses        \* what was sent on res, in order

vars == <<pc, endpoint, body, params, outbound, outcome, content, idx,
          currentSection, currentContent, sections, responses>>

(***************************************************************************)
(* Bounds of the model.                                                    *)
(***************************************************************************)
MaxLines == 3
MaxCiteLines == 3
MaxMsgs == 3

Requests == {"r1", "r2"}

(***************************************************************************)
(* String primitives of JavaScript, on sequences of characters.            *)
(***************************************************************************)
UpperCase == <<"A", "B", "C", "D", "E", "F", "G", "H", "I", "J", "K", "L", "M", "N", "O", "P", "Q", "R", "S", "T", "U", "V", "W", "X", "Y", "Z">>
LowerCase == <<"a", "b", "c", "d", "e", "f", "g", "h", "i", "j", "k", "l", "m", "n", "o", "p", "q", "r", "s", "t", "u", "v", "w", "x", "y", "z">>

WhiteSpace == {" ", "\t", "\r", "\n"}

Digits == {"0", "1", "2", "3", "4", "5", "6", "7", "8", "9"}

Min(S) == CHOOSE x \in S : \A y \in S : x <= y

Max(S) == CHOOSE x \in S : \A y \in S : y <= x

toLowerCase(s) ==
    [i \in 1..Len(s) |->
        IF \E k \in 1..Len(UpperCase) : UpperCase[k] = s[i]
        THEN LowerCase[CHOOSE k \in 1..Len(UpperCase) : UpperCase[k] = s[i]]
        ELSE s[i]]

\* Where sep occurs in s
Occurrences(s, sep) ==
    {i \in 1..(Len(s) + 1 - Len(sep)) : SubSeq(s, i, i + Len(sep) - 1) = sep}

\* String.prototype.indexOf, 1-based, 0 when absent
indexOf(s, sep) ==
    IF Len(sep) > Len(s) \/ Occurrences(s, sep) = {} THEN 0
    ELSE Min(Occurrences(s, sep))

includes(s, t) == indexOf(s, t) # 0

RECURSIVE split(_, _)
\* String.prototype.split with a non-empty separator
split(s, sep) ==
    LET i == indexOf(s, sep) IN
    IF i = 0 THEN <<s>>
    ELSE <<SubSeq(s, 1, i - 1)>> \o split(SubSeq(s, i + Len(sep), Len(s)), sep)

RECURSIVE join(_, _)
\* Array.prototype.join
join(ss, sep) ==
    IF Len(ss) = 0 THEN <<>>
    ELSE IF Len(ss) = 1 THEN ss[1]
    ELSE ss[1] \o sep \o join(Tail(ss), sep)

\* String.prototype.trim
trim(s) ==
    LET keep == {i \in 1..Len(s) : s[i] \notin WhiteSpace} IN
    IF keep = {} THEN <<>> ELSE SubSeq(s, Min(keep), Max(keep))

NL == <<"\n">>

(***************************************************************************)
(* JavaScript values of request bodies and provider replies.               *)
(***************************************************************************)
Undefined == [t |-> "undefined"]

Str(s) == [t |-> "string", v |-> s]

\* An object parsed from JSON, with the text JSON.stringify gives for it;
\* printable is FALSE for an object such as {"toString": null}, whose
\* conversion to a string throws a TypeError
Obj(printable, json) == [t |-> "object", printable |-> printable, json |-> json]

Unprintable == Obj(FALSE, "{\"toString\":null}")

Truthy(v) ==
    CASE v.t = "undefined" -> FALSE
      [] v.t = "string" -> v.v # ""
      [] OTHER -> TRUE

\* v1 || v2
OrElse(v1, v2) == IF Truthy(v1) THEN v1 ELSE v2

\* Does `${v}` throw
ToStringThrows(v) == v.t = "object" /\ ~v.printable

\* `${v}` when it does not throw
ToString(v) ==
    CASE v.t = "undefined" -> "undefined"
      [] v.t = "string" -> v.v
      [] OTHER -> "[object Object]"

\* JSON.stringify(v) inside a template literal
JSONstringify(v) ==
    CASE v.t = "undefined" -> "undefined"
      [] v.t = "string" -> "\"" \o v.v \o "\""
      [] OTHER -> v.json

\* The body JSON.stringify writes for an object: members whose value is
\* undefined are left out
resJson(obj) == [k \in {k \in DOMAIN obj : obj[k].t # "undefined"} |-> obj[k]]

Response(status, obj) == [status |-> status, json |-> resJson(obj)]

(***************************************************************************)
(* Completion Gateway                                                      *)
(***************************************************************************)
\* Mutant: the role is passed through as it is
ContentsKeepRole(messages) ==
    [i \in 1..Len(messages) |->
        [role |-> messages[i].role, parts |-> <<[text |-> messages[i].content]>>]]

\* params.messages.map(...)
Contents(messages) ==
    [i \in 1..Len(messages) |->
        [role |-> IF messages[i].role = "system" THEN "user" ELSE messages[i].role,
         parts |-> <<[text |-> messages[i].content]>>]]

Pending == [kind |-> "pending"]

\* Does create() throw: the POST rejects (no connection, or a status outside
\* 2xx), or response.data.candidates[0].content.parts[0] cannot be read
createThrows(o) == o.kind \in {"network", "status", "nocandidate"}

\* response.choices[0].message.content
choiceContent(o) == o.text

(***************************************************************************)
(* Paper Segmenter                                                         *)
(***************************************************************************)
PAPER_SECTIONS == <<
    <<"A", "b", "s", "t", "r", "a", "c", "t">>,
    <<"I", "n", "t", "r", "o", "d", "u", "c", "t", "i", "o", "n">>,
    <<"L", "i", "t", "e", "r", "a", "t", "u", "r", "e", " ", "R", "e", "v", "i", "e", "w">>,
    <<"M", "e", "t", "h", "o", "d", "o", "l", "o", "g", "y">>,
    <<"R", "e", "s", "u", "l", "t", "s">>,
    <<"D", "i", "s", "c", "u", "s", "s", "i", "o", "n">>,
    <<"C", "o", "n", "c", "l", "u", "s", "i", "o", "n">>,
    <<"R", "e", "f", "e", "r", "e", "n", "c", "e", "s">> >>

HeadingSlack == 10

\* The predicate given to PAPER_SECTIONS.find
titleMatches(line, title) ==
    /\ includes(toLowerCase(line), toLowerCase(title))
    /\ Len(line) < Len(title) + HeadingSlack

\* Mutant: the last title the predicate accepts
sectionMatchLast(line) ==
    LET hits == {k \in 1..Len(PAPER_SECTIONS) : titleMatches(line, PAPER_SECTIONS[k])} IN
    IF hits = {} THEN 0 ELSE Max(hits)

\* PAPER_SECTIONS.find(...): the first title the predicate accepts, as its
\* index in the list; 0 stands for undefined
sectionMatch(line) ==
    LET hits == {k \in 1..Len(PAPER_SECTIONS) : titleMatches(line, PAPER_SECTIONS[k])} IN
    IF hits = {} THEN 0 ELSE Min(hits)

\* Mutant: a known key keeps its first value
assignKeepFirst(obj, key, value) ==
    IF \E i \in 1..Len(obj) : obj[i].key = key
    THEN obj
    ELSE Append(obj, [key |-> key, value |-> value])

\* sections[key] = value: a new key goes last, a known key keeps its place
assign(obj, key, value) ==
    IF \E i \in 1..Len(obj) : obj[i].key = key
    THEN [i \in 1..Len(obj) |->
            IF obj[i].key = key THEN [key |-> key, value |-> value] ELSE obj[i]]
    ELSE Append(obj, [key |-> key, value |-> value])

\* Mutant: the body is stored without trim()
flushUntrimmed(obj, section, lines) == assign(obj, section, join(lines, NL))

\* sections[currentSection] = currentContent.join('\n').trim()
flush(obj, section, lines) == assign(obj, section, trim(join(lines, NL)))

\* Mutant: currentSection is declared once for the module, so a handler
\* starts from the section another request left open
initialSectionShared(r) ==
    IF \E q \in Requests \ {r} : currentSection[q] # <<>>
    THEN currentSection[CHOOSE q \in Requests \ {r} : currentSection[q] # <<>>]
    ELSE <<>>

\* let currentSection = ''
initialSection(r) == <<>>

Lines(r) == split(content[r], NL)

(***************************************************************************)
(* Citation Extractor                                                      *)
(***************************************************************************)
\* citation.match(/\((\d{4})\)/): the first "(dddd)", as its four digits
yearOf(c) ==
    LET hits == {i \in 1..Len(c) :
                    /\ i + 5 <= Len(c)
                    /\ c[i] = "("
                    /\ \A k \in 1..4 : c[i + k] \in Digits
                    /\ c[i + 5] = ")"} IN
    IF hits = {} THEN <<>> ELSE SubSeq(c, Min(hits) + 1, Min(hits) + 4)

\* Mutant: the title is taken without trim()
titleOfUntrimmed(c) ==
    LET byParen == split(c, <<")", ".">>) IN
    IF Len(byParen) < 2 THEN <<>>
    ELSE split(byParen[2], <<".">>)[1]

\* citation.split(').')[1]?.split('.')[0]?.trim() || ''
titleOf(c) ==
    LET byParen == split(c, <<")", ".">>) IN
    IF Len(byParen) < 2 THEN <<>>
    ELSE trim(split(byParen[2], <<".">>)[1])

citationOf(c) ==
    [text |-> c,
     type |-> "article",
     year |-> yearOf(c),
     authors |-> trim(split(c, <<"(">>)[1]),
     title |-> titleOf(c)]

\* Mutant: .filter(citation => citation)
keepNonEmpty(lines) == SelectSeq(lines, LAMBDA l : l # <<>>)

\* .filter(citation => citation.trim())
nonBlank(lines) == SelectSeq(lines, LAMBDA l : trim(l) # <<>>)

extractCitations(text) ==
    LET kept == nonBlank(split(text, NL)) IN
    [i \in 1..Len(kept) |-> citationOf(kept[i])]

(***************************************************************************)
(* Inputs: request bodies, provider replies, texts.                        *)
(***************************************************************************)
SeqsUpTo(S, n) == UNION {[1..k -> S] : k \in 0..n}

\* Values a client can put in a string field of the JSON body
FieldValues == {Undefined, Str(""), Str("AI"), Unprintable}

PaperValues == {Undefined, Obj(TRUE, "{\"title\":\"T\"}")}

AspectValues == {Undefined, Str(""), Str("clarity")}

ContextValues ==
    {Undefined,
     [t |-> "object", printable |-> TRUE, json |-> "{\"paperTitle\":\"P\"}",
      sectionTitle |-> Undefined, paperTitle |-> Str("P"), abstract |-> Undefined]}

\* Texts the provider returns in the server specification
PaperText == <<"#", "#", " ", "A", "b", "s", "t", "r", "a", "c", "t", "\n", "F", "o", "o", "\n", "#", "#", " ", "I", "n", "t", "r", "o", "d", "u", "c", "t", "i", "o", "n", "\n", "B", "a", "r">>

ReorderText == <<"F", "o", "o", "\n", "#", "#", " ", "A", "b", "s", "t", "r", "a", "c", "t", "\n", "B", "a", "r", "\n", "#", "#", " ", "R", "e", "s", "u", "l", "t", "s", "\n", "B", "a", "z">>

CitationText == <<"S", "m", "i", "t", "h", ",", " ", "J", ".", " ", "(", "2", "0", "2", "0", ")", ".", " ", "D", "e", "e", "p", " ", "l", "e", "a", "r", "n", "i", "n", "g", " ", "m", "e", "t", "h", "o", "d", "s", ".", " ", "J", "o", "u", "r", "n", "a", "l", " ", "X", ".", "\n", "\n", "N", "o", " ", "p", "a", "r", "e", "n", "s", " ", "h", "e", "r", "e">>

ProviderOutcomes ==
    {[kind |-> "network"], [kind |-> "status"], [kind |-> "nocandidate"]}
    \cup {[kind |-> "ok", text |-> v] :
            v \in {Undefined, Str(PaperText), Str(ReorderText), Str(CitationText)}}

\* Lines of the texts the segmenter is run on
SegCorpus == {
    <<"#", "#", " ", "A", "b", "s", "t", "r", "a", "c", "t">>,
    <<"I", "N", "T", "R", "O", "D", "U", "C", "T", "I", "O", "N">>,
    <<"R", "e", "s", "u", "l", "t", "s">>,
    <<"R", "e", "s", "u", "l", "t", "s", " ", "A", "b", "s", "t", "r", "a", "c", "t">>,
    <<"M", "a", "i", "n", " ", "r", "e", "s", "u", "l", "t", "s", " ", "n", "o", "w">>,
    <<"T", "h", "e", " ", "r", "e", "s", "u", "l", "t", "s", " ", "t", "a", "b", "l", "e">>,
    <<"F", "o", "o">>,
    <<" ", "B", "a", "r", " ">>,
    <<>> }

SegTexts == {join(ls, NL) : ls \in SeqsUpTo(SegCorpus, MaxLines)}

\* Lines of the texts the citation extractor is run on
CiteCorpus == {
    <<"L", "i", ",", " ", "J", ".", " ", "(", "2", "0", "2", "0", ")", ".", " ", "D", "e", "e", "p", " ", "n", "e", "t", "s", ".", " ", "J", "o", "u", "r", "n", "a", "l", " ", "X", ".">>,
    <<"N", "o", " ", "p", "a", "r", "e", "n", "s", " ", "h", "e", "r", "e">>,
    <<"D", "o", "e", " ", "(", "2", "0", "1", "9", ")", ".", " ", "U", "n", "t", "i", "t", "l", "e", "d">>,
    <<"R", "o", "e", " ", "(", "2", "0", "2", "1", ")", ".", " ", "A", " ", "(", "b", ")", ".", " ", "C", ".">>,
    <<"K", "i", "m", " ", "(", "2", "0", "1", "8", ")", ".", " ", " ", ".", " ", "X">>,
    <<"x", ")", ".", ")", ".">>,
    <<" ", " ">>,
    <<"\r">>,
    <<>> }

CiteTexts == {join(ls, NL) : ls \in SeqsUpTo(CiteCorpus, MaxCiteLines)}

\* Message lists the gateway is run on
MessageLists ==
    SeqsUpTo([role : {"system", "user", "model"}, content : {"a", "b"}], MaxMsgs)

(***************************************************************************)
(* Request handlers                                                        *)
(***************************************************************************)
Bool(b) == [t |-> "boolean", v |-> b]

Arr(a) == [t |-> "array", v |-> a]

Map(m) == [t |-> "object", v |-> m]

NoBody == [k \in {} |-> Undefined]

NoParams == [messages |-> <<>>]

\* A handler runs to completion between two awaits: no other handler starts
\* or resumes while one is inside a synchronous stretch
Busy == \E q \in Requests : pc[q] \in {"create", "seg", "cite"}

\* res.status(s).json(obj), the last statement the handler executes
Respond(r, status, obj) ==
    /\ responses' = [responses EXCEPT ![r] = Append(@, Response(status, obj))]
    /\ pc' = [pc EXCEPT ![r] = "done"]

\* The handler goes on to gemini.chat.completions.create(p)
CallGateway(r, p) ==
    /\ params' = [params EXCEPT ![r] = p]
    /\ pc' = [pc EXCEPT ![r] = "create"]
    /\ UNCHANGED responses

Accept(r, path, b) ==
    /\ pc[r] = "idle"
    /\ ~Busy
    /\ endpoint' = [endpoint EXCEPT ![r] = path]
    /\ body' = [body EXCEPT ![r] = b]

\* gemini.chat.completions.create up to its await: one POST
GatewayCreate(r) ==
    /\ pc[r] = "create"
    /\ outbound' = [outbound EXCEPT ![r] =
          Append(@, [url |-> "gemini-2.5-flash:generateContent",
                     contents |-> Contents(params[r].messages)])]
    /\ pc' = [pc EXCEPT ![r] = "await"]
    /\ UNCHANGED <<endpoint, body, params, outcome, content, idx,
                   currentSection, currentContent, sections, responses>>

\* The provider call of r ends with o and the handler is resumed
Settle(r, path, o) ==
    /\ pc[r] = "await"
    /\ endpoint[r] = path
    /\ ~Busy
    /\ outcome' = [outcome EXCEPT ![r] = o]

generatePaperInvalid(topic) == ~Truthy(topic)

generatePaperParams(topic) ==
    [messages |-> <<
        [role |-> "system",
         content |-> "You are an expert academic writer. Generate a complete research paper with the following sections: Abstract, Introduction, Literature Review, Methodology, Results, Discussion, Conclusion, and References. Use formal academic language and maintain coherence between sections."],
        [role |-> "user",
         content |-> "Generate a complete research paper about: " \o ToString(topic) \o ". Include all sections."] >>,
     temperature |-> "0.7",
     max_tokens |-> 4000]

\* POST /generate-paper, up to the await
GeneratePaper(r) ==
    /\ \E topic \in FieldValues :
        /\ Accept(r, "/generate-paper", [topic |-> topic])
        /\ IF generatePaperInvalid(topic)
           THEN Respond(r, 400, [error |-> Str("Topic is required")])
                /\ UNCHANGED params
           ELSE IF ToStringThrows(topic)
           THEN Respond(r, 500, [error |-> Str("Failed to generate paper")])
                /\ UNCHANGED params
           ELSE CallGateway(r, generatePaperParams(topic))
    /\ UNCHANGED <<outbound, outcome, content, idx, currentSection,
                   currentContent, sections>>

\* POST /generate-paper, from the await to the forEach
GeneratePaperResume(r) ==
    /\ \E o \in ProviderOutcomes :
        /\ Settle(r, "/generate-paper", o)
        /\ IF createThrows(o) \/ choiceContent(o).t # "string"
           THEN /\ Respond(r, 500, [error |-> Str("Failed to generate paper")])
                /\ UNCHANGED <<content, idx, currentSection, currentContent, sections>>
           ELSE /\ content' = [content EXCEPT ![r] = choiceContent(o).v]
                /\ sections' = [sections EXCEPT ![r] = <<>>]
                /\ currentSection' = [currentSection EXCEPT ![r] = initialSection(r)]
                /\ currentContent' = [currentContent EXCEPT ![r] = <<>>]
                /\ idx' = [idx EXCEPT ![r] = 1]
                /\ pc' = [pc EXCEPT ![r] = "seg"]
                /\ UNCHANGED responses
    /\ UNCHANGED <<endpoint, body, params, outbound>>

\* One iteration of content.split('\n').forEach
SegLine(r) ==
    /\ pc[r] = "seg"
    /\ idx[r] <= Len(Lines(r))
    /\ LET line == Lines(r)[idx[r]]
           m == sectionMatch(line)
       IN  IF m # 0
           THEN /\ sections' = [sections EXCEPT ![r] =
                      IF currentSection[r] # <<>>
                      THEN flush(@, currentSection[r], currentContent[r])
                      ELSE @]
                /\ currentSection' = [currentSection EXCEPT ![r] = PAPER_SECTIONS[m]]
                /\ currentContent' = [currentContent EXCEPT ![r] = <<>>]
           ELSE /\ currentContent' = [currentContent EXCEPT ![r] =
                      IF currentSection[r] # <<>> THEN Append(@, line) ELSE @]
                /\ UNCHANGED <<sections, currentSection>>
    /\ idx' = [idx EXCEPT ![r] = @ + 1]
    /\ UNCHANGED <<pc, endpoint, body, params, outbound, outcome, content, responses>>

\* The flush after the loop, and res.json
SegFinish(r) ==
    /\ pc[r] = "seg"
    /\ idx[r] > Len(Lines(r))
    /\ sections' = [sections EXCEPT ![r] =
          IF currentSection[r] # <<>>
          THEN flush(@, currentSection[r], currentContent[r])
          ELSE @]
    /\ Respond(r, 200, [success |-> Bool(TRUE), paper |-> Map(sections'[r])])
    /\ UNCHANGED <<endpoint, body, params, outbound, outcome, content, idx,
                   currentSection, currentContent>>

fetchCitationsParams(topic) ==
    [messages |-> <<
        [role |-> "system",
         content |-> "You are a research librarian. Generate accurate and relevant academic citations for the given topic. Include full citation details and ensure proper academic formatting."],
        [role |-> "user",
         content |-> "Generate 10 relevant academic citations for research on: " \o ToString(topic)] >>,
     temperature |-> "0.7",
     max_tokens |-> 1500]

\* POST /fetch-citations, up to the await
FetchCitations(r) ==
    /\ \E topic \in FieldValues :
        /\ Accept(r, "/fetch-citations", [topic |-> topic])
        /\ IF ToStringThrows(topic)
           THEN Respond(r, 500, [error |-> Str("Failed to fetch citations")])
                /\ UNCHANGED params
           ELSE CallGateway(r, fetchCitationsParams(topic))
    /\ UNCHANGED <<outbound, outcome, content, idx, currentSection,
                   currentContent, sections>>

\* POST /fetch-citations, from the await to the split
FetchCitationsResume(r) ==
    /\ \E o \in ProviderOutcomes :
        /\ Settle(r, "/fetch-citations", o)
        /\ IF createThrows(o) \/ choiceContent(o).t # "string"
           THEN /\ Respond(r, 500, [error |-> Str("Failed to fetch citations")])
                /\ UNCHANGED content
           ELSE /\ content' = [content EXCEPT ![r] = choiceContent(o).v]
                /\ pc' = [pc EXCEPT ![r] = "cite"]
                /\ UNCHANGED responses
    /\ UNCHANGED <<endpoint, body, params, outbound, idx, currentSection,
                   currentContent, sections>>

\* split, filter, map, and res.json
CiteExtract(r) ==
    /\ pc[r] = "cite"
    /\ Respond(r, 200, [citations |-> Arr(extractCitations(content[r]))])
    /\ UNCHANGED <<endpoint, body, params, outbound, outcome, content, idx,
                   currentSection, currentContent, sections>>

formatPaperParams(paper, style) ==
    [messages |-> <<
        [role |-> "system",
         content |-> "You are an expert in academic writing and citation styles. Format the given research paper according to " \o ToString(style) \o " style guidelines."],
        [role |-> "user",
         content |-> "Format this paper in " \o ToString(style) \o " style:\n\n" \o JSONstringify(paper)] >>,
     temperature |-> "0.3",
     max_tokens |-> 2000]

\* POST /format-paper, up to the await
FormatPaper(r) ==
    /\ \E paper \in PaperValues, style \in FieldValues :
        /\ Accept(r, "/format-paper", [paper |-> paper, style |-> style])
        /\ IF ToStringThrows(style)
           THEN Respond(r, 500, [error |-> Str("Failed to format paper")])
                /\ UNCHANGED params
           ELSE CallGateway(r, formatPaperParams(paper, style))
    /\ UNCHANGED <<outbound, outcome, content, idx, currentSection,
                   currentContent, sections>>

\* POST /format-paper, from the await on
FormatPaperResume(r) ==
    /\ \E o \in ProviderOutcomes :
        /\ Settle(r, "/format-paper", o)
        /\ IF createThrows(o)
           THEN Respond(r, 500, [error |-> Str("Failed to format paper")])
           ELSE Respond(r, 200, [formattedPaper |-> choiceContent(o)])
    /\ UNCHANGED <<endpoint, body, params, outbound, content, idx,
                   currentSection, currentContent, sections>>

\* const contentToImprove = prompt || text
contentToImprove(b) == OrElse(b.prompt, b.text)

\* Mutant: && in place of ||
improveWritingInvalidBoth(b) == ~Truthy(contentToImprove(b)) /\ ~Truthy(b.aspect)

improveWritingInvalid(b) == ~Truthy(contentToImprove(b)) \/ ~Truthy(b.aspect)

\* const { sectionTitle, paperTitle, abstract } = context || {}
contextOf(b) ==
    IF Truthy(b.context) THEN b.context
    ELSE [sectionTitle |-> Undefined, paperTitle |-> Undefined, abstract |-> Undefined]

\* The values the two template literals interpolate
improveWritingInterpolated(b) ==
    {v \in {contextOf(b).paperTitle, contextOf(b).abstract, contextOf(b).sectionTitle} :
        Truthy(v)} \cup {contentToImprove(b)}

systemPrompt(b) ==
    "You are an expert academic writer working on "
    \o (IF Truthy(contextOf(b).paperTitle)
        THEN "a paper titled \"" \o ToString(contextOf(b).paperTitle) \o "\""
        ELSE "a research paper")
    \o ".\n"
    \o (IF Truthy(contextOf(b).abstract)
        THEN "The paper's abstract: \"" \o ToString(contextOf(b).abstract) \o "\""
        ELSE "")
    \o "\n"
    \o (IF Truthy(contextOf(b).sectionTitle)
        THEN "Currently working on: " \o ToString(contextOf(b).sectionTitle)
        ELSE "")

improveWritingParams(b) ==
    [messages |-> <<
        [role |-> "system", content |-> systemPrompt(b)],
        [role |-> "user",
         content |-> "Improve this academic writing:\n\n" \o ToString(contentToImprove(b))] >>,
     temperature |-> "0.7",
     max_tokens |-> 2000]

\* POST /api/ai/improve-writing, up to the await
ImproveWriting(r) ==
    /\ \E prompt \in FieldValues, text \in FieldValues \ {Unprintable},
          aspect \in AspectValues, context \in ContextValues :
        LET b == [prompt |-> prompt, text |-> text, aspect |-> aspect,
                  context |-> context] IN
        /\ Accept(r, "/api/ai/improve-writing", b)
        /\ IF improveWritingInvalid(b)
           THEN Respond(r, 400,
                    [error |-> Str("Content to improve and writing aspect are required")])
                /\ UNCHANGED params
           ELSE IF \E v \in improveWritingInterpolated(b) : ToStringThrows(v)
           THEN Respond(r, 500, [error |-> Str("Failed to improve writing")])
                /\ UNCHANGED params
           ELSE CallGateway(r, improveWritingParams(b))
    /\ UNCHANGED <<outbound, outcome, content, idx, currentSection,
                   currentContent, sections>>

\* POST /api/ai/improve-writing, from the await on
ImproveWritingResume(r) ==
    /\ \E o \in ProviderOutcomes :
        /\ Settle(r, "/api/ai/improve-writing", o)
        /\ IF createThrows(o)
           THEN Respond(r, 500, [error |-> Str("Failed to improve writing")])
           ELSE Respond(r, 200, [improved |-> choiceContent(o),
                                 changes |-> Arr(<<body[r].aspect>>)])
    /\ UNCHANGED <<endpoint, body, params, outbound, content, idx,
                   currentSection, currentContent, sections>>

(***************************************************************************)
(* Specifications                                                          *)
(***************************************************************************)
Idle ==
    /\ pc = [r \in Requests |-> "idle"]
    /\ endpoint = [r \in Requests |-> "none"]
    /\ body = [r \in Requests |-> NoBody]
    /\ params = [r \in Requests |-> NoParams]
    /\ outbound = [r \in Requests |-> <<>>]
    /\ outcome = [r \in Requests |-> Pending]
    /\ content = [r \in Requests |-> <<>>]
    /\ idx = [r \in Requests |-> 0]
    /\ currentSection = [r \in Requests |-> <<>>]
    /\ currentContent = [r \in Requests |-> <<>>]
    /\ sections = [r \in Requests |-> <<>>]
    /\ responses = [r \in Requests |-> <<>>]

\* The server: requests arrive and are handled concurrently
Init == Idle

Next ==
    \E r \in Requests :
        \/ GeneratePaper(r)
        \/ FetchCitations(r)
        \/ FormatPaper(r)
        \/ ImproveWriting(r)
        \/ GatewayCreate(r)
        \/ GeneratePaperResume(r)
        \/ SegLine(r)
        \/ SegFinish(r)
        \/ FetchCitationsResume(r)
        \/ CiteExtract(r)
        \/ FormatPaperResume(r)
        \/ ImproveWritingResume(r)

Spec == Init /\ [][Next]_vars

\* The state of request r1 of /generate-paper when the provider returned txt
SegStart(txt) ==
    /\ pc = [r \in Requests |-> IF r = "r1" THEN "seg" ELSE "idle"]
    /\ endpoint = [r \in Requests |-> IF r = "r1" THEN "/generate-paper" ELSE "none"]
    /\ body = [r \in Requests |-> IF r = "r1" THEN [topic |-> Str("AI")] ELSE NoBody]
    /\ params = [r \in Requests |->
          IF r = "r1" THEN generatePaperParams(Str("AI")) ELSE NoParams]
    /\ outbound = [r \in Requests |->
          IF r = "r1"
          THEN <<[url |-> "gemini-2.5-flash:generateContent",
                  contents |-> Contents(generatePaperParams(Str("AI")).messages)]>>
          ELSE <<>>]
    /\ outcome = [r \in Requests |->
          IF r = "r1" THEN [kind |-> "ok", text |-> Str(txt)] ELSE Pending]
    /\ content = [r \in Requests |-> IF r = "r1" THEN txt ELSE <<>>]
    /\ idx = [r \in Requests |-> IF r = "r1" THEN 1 ELSE 0]
    /\ currentSection = [r \in Requests |-> <<>>]
    /\ currentContent = [r \in Requests |-> <<>>]
    /\ sections = [r \in Requests |-> <<>>]
    /\ responses = [r \in Requests |-> <<>>]

\* The segmenter on every text of SegTexts
SegInit == \E txt \in SegTexts : SegStart(txt)

SegNext == \E r \in Requests : SegLine(r) \/ SegFinish(r)

SegSpec == SegInit /\ [][SegNext]_vars

\* The state of request r1 of /fetch-citations when the provider returned txt
CiteStart(txt) ==
    /\ pc = [r \in Requests |-> IF r = "r1" THEN "cite" ELSE "idle"]
    /\ endpoint = [r \in Requests |-> IF r = "r1" THEN "/fetch-citations" ELSE "none"]
    /\ body = [r \in Requests |-> IF r = "r1" THEN [topic |-> Str("AI")] ELSE NoBody]
    /\ params = [r \in Requests |->
          IF r = "r1" THEN fetchCitationsParams(Str("AI")) ELSE NoParams]
    /\ outbound = [r \in Requests |->
          IF r = "r1"
          THEN <<[url |-> "gemini-2.5-flash:generateContent",
                  contents |-> Contents(fetchCitationsParams(Str("AI")).messages)]>>
          ELSE <<>>]
    /\ outcome = [r \in Requests |->
          IF r = "r1" THEN [kind |-> "ok", text |-> Str(txt)] ELSE Pending]
    /\ content = [r \in Requests |-> IF r = "r1" THEN txt ELSE <<>>]
    /\ idx = [r \in Requests |-> 0]
    /\ currentSection = [r \in Requests |-> <<>>]
    /\ currentContent = [r \in Requests |-> <<>>]
    /\ sections = [r \in Requests |-> <<>>]
    /\ responses = [r \in Requests |-> <<>>]

\* The citation extractor on every text of CiteTexts
CiteInit == \E txt \in CiteTexts : CiteStart(txt)

CiteNext == \E r \in Requests : CiteExtract(r)

CiteSpec == CiteInit /\ [][CiteNext]_vars

\* The state of request r1 when a handler calls create with messages msgs
GatewayStart(msgs) ==
    /\ pc = [r \in Requests |-> IF r = "r1" THEN "create" ELSE "idle"]
    /\ endpoint = [r \in Requests |-> IF r = "r1" THEN "/format-paper" ELSE "none"]
    /\ body = [r \in Requests |->
          IF r = "r1" THEN [paper |-> Undefined, style |-> Undefined] ELSE NoBody]
    /\ params = [r \in Requests |->
          IF r = "r1"
          THEN [messages |-> msgs, temperature |-> "0.3", max_tokens |-> 2000]
          ELSE NoParams]
    /\ outbound = [r \in Requests |-> <<>>]
    /\ outcome = [r \in Requests |-> Pending]
    /\ content = [r \in Requests |-> <<>>]
    /\ idx = [r \in Requests |-> 0]
    /\ currentSection = [r \in Requests |-> <<>>]
    /\ currentContent = [r \in Requests |-> <<>>]
    /\ sections = [r \in Requests |-> <<>>]
    /\ responses = [r \in Requests |-> <<>>]

\* The gateway on every message list of MessageLists
GatewayInit == \E msgs \in MessageLists : GatewayStart(msgs)

GatewayNext == \E r \in Requests : GatewayCreate(r)

GatewaySpec == GatewayInit /\ [][GatewayNext]_vars

(***************************************************************************)
(* What the properties below read from a state.                            *)
(***************************************************************************)
\* The text read as lines, by the places of its newlines
Breaks(text) ==
    {0} \cup {i \in 1..Len(text) : text[i] = "\n"} \cup {Len(text) + 1}

Nth(S, k) == CHOOSE x \in S : Cardinality({y \in S : y < x}) = k - 1

LineCount(text) == Cardinality(Breaks(text)) - 1

LineAt(text, k) ==
    SubSeq(text, Nth(Breaks(text), k) + 1, Nth(Breaks(text), k + 1) - 1)

Blank(l) == \A i \in 1..Len(l) : l[i] \in WhiteSpace

SameLetter(a, b) ==
    a = b \/ \E k \in 1..Len(UpperCase) : {a, b} = {UpperCase[k], LowerCase[k]}

ContainsCI(line, title) ==
    \E i \in 1..(Len(line) + 1 - Len(title)) :
        \A j \in 1..Len(title) : SameLetter(line[i + j - 1], title[j])

\* The canonical titles for which the line is a heading, as indices
HeadingFor(line) ==
    {k \in 1..Len(PAPER_SECTIONS) :
        /\ ContainsCI(line, PAPER_SECTIONS[k])
        /\ Len(line) < Len(PAPER_SECTIONS[k]) + 10}

\* The section a heading line opens
Opened(line) == PAPER_SECTIONS[Min(HeadingFor(line))]

HeadingLines(text) ==
    {i \in 1..LineCount(text) : HeadingFor(LineAt(text, i)) # {}}

OccurrencesOf(text, t) ==
    {i \in HeadingLines(text) : Opened(LineAt(text, i)) = t}

\* The trimmed text between heading line h and the next heading line
BodyAfter(text, h) ==
    LET later == {i \in HeadingLines(text) : i > h}
        n == IF later = {} THEN LineCount(text) + 1 ELSE Min(later)
    IN  IF n = h + 1 THEN <<>>
        ELSE trim(SubSeq(text, Nth(Breaks(text), h + 1) + 1, Nth(Breaks(text), n) - 1))

Answered(r, path, status) ==
    /\ pc[r] = "done"
    /\ endpoint[r] = path
    /\ Len(responses[r]) = 1
    /\ responses[r][1].status = status

Segmented(r) == Answered(r, "/generate-paper", 200)

Paper(r) == responses[r][1].json.paper.v

Extracted(r) == Answered(r, "/fetch-citations", 200)

Cites(r) == responses[r][1].json.citations.v

(***************************************************************************)
(* C3: the Citation Extractor returns exactly one record per non-blank     *)
(* line of the text (blank: empty or whitespace only), in the order of the *)
(* lines, each with the raw line as text and "article" as type; so there   *)
(* are never more records than lines.                                      *)
(***************************************************************************)
C3_OneRecordPerNonBlankLine ==
    \A r \in Requests :
        Extracted(r) =>
            LET text == content[r]
                kept == {k \in 1..LineCount(text) : ~Blank(LineAt(text, k))}
            IN  /\ Len(Cites(r)) = Cardinality(kept)
                /\ Len(Cites(r)) <= LineCount(text)
                /\ \A j \in 1..Len(Cites(r)) :
                      /\ Cites(r)[j].text = LineAt(text, Nth(kept, j))
                      /\ Cites(r)[j].type = "article"

\* A text of three lines whose middle line is whitespace gave two records
C3_Witness ==
    \E r \in Requests :
        /\ Extracted(r)
        /\ LineCount(content[r]) = 3
        /\ LineAt(content[r], 2) # <<>>
        /\ Blank(LineAt(content[r], 2))
        /\ Len(Cites(r)) = 2

FirstParenDot(c) ==
    LET P == {i \in 1..(Len(c) - 1) : c[i] = ")" /\ c[i + 1] = "."} IN
    IF P = {} THEN 0 ELSE Min(P)

ClaimedTitle(c) ==
    LET p == FirstParenDot(c)
        D == {i \in (p + 2)..Len(c) : c[i] = "."}
    IN  IF p = 0 \/ D = {} THEN <<>> ELSE trim(SubSeq(c, p + 2, Min(D) - 1))

(***************************************************************************)
(* C4 as stated: the title is the trimmed substring after the first ")."   *)
(* and before the following "."; it is empty when the line has no ")." or  *)
(* when no "." follows the first ").".                                     *)
(***************************************************************************)
C4_TitleAsStated ==
    \A r \in Requests :
        Extracted(r) =>
            \A j \in 1..Len(Cites(r)) :
                Cites(r)[j].title = ClaimedTitle(Cites(r)[j].text)

ActualTitle(c) ==
    LET p == FirstParenDot(c)
        E == {i \in (p + 2)..Len(c) :
                 \/ c[i] = "."
                 \/ (c[i] = ")" /\ i < Len(c) /\ c[i + 1] = ".")}
        e == IF E = {} THEN Len(c) + 1 ELSE Min(E)
    IN  IF p = 0 THEN <<>> ELSE trim(SubSeq(c, p + 2, e - 1))

(***************************************************************************)
(* C4 amended: the title is the trimmed substring after the first ")."     *)
(* and before whichever comes first of the next "." and the next ").", or  *)
(* up to the end of the line when neither follows; it is empty when the    *)
(* line has no ")." (or when that substring is blank).                     *)
(***************************************************************************)
C4_Title ==
    \A r \in Requests :
        Extracted(r) =>
            \A j \in 1..Len(Cites(r)) :
                Cites(r)[j].title = ActualTitle(Cites(r)[j].text)

\* A line with ")." and no "." after it got a title that is not empty, and
\* a line with a second ")." got a title cut before its ")"
C4_Witness ==
    \E r \in Requests :
        /\ Extracted(r)
        /\ \E j \in 1..Len(Cites(r)) :
              LET c == Cites(r)[j].text IN
              /\ FirstParenDot(c) # 0
              /\ \A i \in (FirstParenDot(c) + 2)..Len(c) : c[i] # "."
              /\ Cites(r)[j].title # <<>>
        /\ \E j \in 1..Len(Cites(r)) :
              Cites(r)[j].title # <<>> /\ Cites(r)[j].title # ClaimedTitle(Cites(r)[j].text)
                 /\ ClaimedTitle(Cites(r)[j].text) # <<>>

C8_LastOccurrenceWins ==
    \A r \in Requests :
        Segmented(r) =>
            \A k \in 1..Len(PAPER_SECTIONS) :
                LET t == PAPER_SECTIONS[k]
                    occ == OccurrencesOf(content[r], t)
                    at == {a \in 1..Len(Paper(r)) : Paper(r)[a].key = t}
                IN  Cardinality(occ) >= 2 =>
                        /\ Cardinality(at) = 1
                        /\ \A a \in at :
                              Paper(r)[a].value = BodyAfter(content[r], Max(occ))

\* A title occurred twice, with a body after the first occurrence and none
\* after the last, and the key holds the empty body
C8_Witness ==
    \E r \in Requests :
        /\ Segmented(r)
        /\ \E k \in 1..Len(PAPER_SECTIONS) :
              LET occ == OccurrencesOf(content[r], PAPER_SECTIONS[k]) IN
              /\ Cardinality(occ) >= 2
              /\ BodyAfter(content[r], Min(occ)) # <<>>
              /\ BodyAfter(content[r], Max(occ)) = <<>>
              /\ \E a \in 1..Len(Paper(r)) :
                    Paper(r)[a].key = PAPER_SECTIONS[k] /\ Paper(r)[a].value = <<>>

(***************************************************************************)
(* C9: a line that contains some canonical title within that title's       *)
(* length threshold is always treated as a heading, and the section it     *)
(* opens is the first such title in the order of PAPER_SECTIONS, whatever  *)
(* the order of the titles inside the line.                                *)
(***************************************************************************)
C9_FirstCanonicalTitleWins ==
    \A r \in Requests :
        (pc[r] \in {"seg", "done"} /\ endpoint[r] = "/generate-paper" /\ idx[r] > 1) =>
            LET line == LineAt(content[r], idx[r] - 1) IN
            HeadingFor(line) # {} =>
                /\ currentSection[r] = PAPER_SECTIONS[Min(HeadingFor(line))]
                /\ currentContent[r] = <<>>

\* The line "Results Abstract" was read while Results was open with a body,
\* and it opened Abstract
C9_Witness ==
    \E r \in Requests :
        /\ pc[r] = "seg"
        /\ idx[r] = 4
        /\ LineAt(content[r], 1) = <<"R", "e", "s", "u", "l", "t", "s">>
        /\ LineAt(content[r], 2) = <<"F", "o", "o">>
        /\ LineAt(content[r], 3) = <<"R", "e", "s", "u", "l", "t", "s", " ", "A", "b", "s", "t", "r", "a", "c", "t">>
        /\ HeadingFor(LineAt(content[r], 3)) = {1, 5}
        /\ currentSection[r] = <<"A", "b", "s", "t", "r", "a", "c", "t">>
        /\ sections[r] = <<[key |-> <<"R", "e", "s", "u", "l", "t", "s">>, value |-> <<"F", "o", "o">>]>>

(***************************************************************************)
(* C10: the request the gateway sends has one content item per message,    *)
(* in the same order, each with the message's content as its single text   *)
(* part; role "system" is sent as "user", any other role unchanged, so no  *)
(* item with role "system" reaches the provider.                           *)
(***************************************************************************)
C10_GatewayContents ==
    \A r \in Requests :
        \A n \in 1..Len(outbound[r]) :
            LET sent == outbound[r][n].contents
                msgs == params[r].messages
            IN  /\ Len(sent) = Len(msgs)
                /\ \A i \in 1..Len(sent) :
                      /\ sent[i].parts = <<[text |-> msgs[i].content]>>
                      /\ msgs[i].role = "system" => sent[i].role = "user"
                      /\ msgs[i].role # "system" => sent[i].role = msgs[i].role
                      /\ sent[i].role # "system"

\* Three messages were sent, a system message between two others
C10_Witness ==
    \E r \in Requests :
        /\ Len(outbound[r]) = 1
        /\ Len(params[r].messages) = 3
        /\ params[r].messages[1].role = "model"
        /\ params[r].messages[2].role = "system"
        /\ params[r].messages[3].role = "user"
        /\ outbound[r][1].contents[2].role = "user"

Missing(v) == v.t = "undefined"

\* Some response to r has status 400
Rejected(r) == \E i \in 1..Len(responses[r]) : responses[r][i].status = 400

\* r got one response, a 400 with an error field, and no provider call
RejectedWithoutCall(r) ==
    /\ Len(responses[r]) = 1
    /\ responses[r][1].status = 400
    /\ "error" \in DOMAIN responses[r][1].json
    /\ outbound[r] = <<>>

(***************************************************************************)
(* C1 as stated: a request that fails the validation gets a 400 with an    *)
(* error field and never a provider call: /generate-paper when topic is    *)
(* missing or falsy, improve-writing when prompt and text are both missing *)
(* or aspect is missing.  And improve-writing with aspect present and one  *)
(* of prompt and text present is never answered with 400.                  *)
(***************************************************************************)
C1_ValidationAsStated ==
    \A r \in Requests :
        /\ (endpoint[r] = "/generate-paper" /\ ~Truthy(body[r].topic))
              => RejectedWithoutCall(r)
        /\ (/\ endpoint[r] = "/api/ai/improve-writing"
            /\ \/ Missing(body[r].prompt) /\ Missing(body[r].text)
               \/ Missing(body[r].aspect))
              => RejectedWithoutCall(r)
        /\ (/\ endpoint[r] = "/api/ai/improve-writing"
            /\ ~Missing(body[r].aspect)
            /\ ~Missing(body[r].prompt) \/ ~Missing(body[r].text))
              => ~Rejected(r)

(***************************************************************************)
(* C1 amended: a request that fails the validation gets a 400 with an      *)
(* error field and never a provider call: /generate-paper when topic is    *)
(* missing or falsy, improve-writing when prompt and text are both missing *)
(* or falsy, or aspect is missing or falsy (an empty string counts as      *)
(* missing).  And improve-writing with a truthy aspect and a truthy prompt *)
(* or text is never answered with 400.                                     *)
(***************************************************************************)
C1_Validation ==
    \A r \in Requests :
        /\ Rejected(r) => RejectedWithoutCall(r)
        /\ (endpoint[r] = "/generate-paper" /\ ~Truthy(body[r].topic))
              => RejectedWithoutCall(r)
        /\ (/\ endpoint[r] = "/api/ai/improve-writing"
            /\ \/ ~Truthy(body[r].prompt) /\ ~Truthy(body[r].text)
               \/ ~Truthy(body[r].aspect))
              => RejectedWithoutCall(r)
        /\ (/\ endpoint[r] = "/api/ai/improve-writing"
            /\ Truthy(body[r].aspect)
            /\ Truthy(body[r].prompt) \/ Truthy(body[r].text))
              => ~Rejected(r)

\* An improve-writing request with an aspect and an empty text was rejected
\* while one with an aspect and a text was answered 200
C1_Witness ==
    \E r, q \in Requests :
        /\ endpoint[r] = "/api/ai/improve-writing"
        /\ body[r].aspect = Str("clarity")
        /\ body[r].text = Str("")
        /\ RejectedWithoutCall(r)
        /\ Answered(q, "/api/ai/improve-writing", 200)
        /\ body[q].aspect = Str("clarity")
        /\ Missing(body[q].prompt)
        /\ body[q].text = Str("AI")

ServerError(resp) == resp.status = 500 /\ DOMAIN resp.json = {"error"}

FullResult(path, resp) ==
    /\ resp.status = 200
    /\ CASE path = "/generate-paper" ->
              DOMAIN resp.json = {"success", "paper"} /\ resp.json.success.v
         [] path = "/fetch-citations" ->
              DOMAIN resp.json = {"citations"}
         [] path = "/format-paper" ->
              /\ DOMAIN resp.json = {"formattedPaper"}
              /\ resp.json.formattedPaper.t = "string"
         [] path = "/api/ai/improve-writing" ->
              /\ DOMAIN resp.json = {"improved", "changes"}
              /\ resp.json.improved.t = "string"

Completed(r) == pc[r] = "done" /\ outcome[r] # Pending

(***************************************************************************)
(* C2: on each of the four endpoints a request whose provider call has     *)
(* completed gets exactly one response, which is the endpoint's full       *)
(* success result or one 500 object with an error member; a failed call    *)
(* (network, status, no first candidate) always gives the 500 object.      *)
(***************************************************************************)
C2_FullResultOrOneError ==
    \A r \in Requests :
        Completed(r) =>
            /\ Len(responses[r]) = 1
            /\ createThrows(outcome[r]) => ServerError(responses[r][1])
            /\ \/ ServerError(responses[r][1])
               \/ FullResult(endpoint[r], responses[r][1])

\* What C2 leaves when the first candidate always carries a text: a reply
\* without a text is the only way to a result that is neither full nor a 500
C2_HoldsWhenTextIsAString ==
    \A r \in Requests :
        (Completed(r) /\ (createThrows(outcome[r]) \/ outcome[r].text.t = "string")) =>
            /\ Len(responses[r]) = 1
            /\ createThrows(outcome[r]) => ServerError(responses[r][1])
            /\ \/ ServerError(responses[r][1])
               \/ FullResult(endpoint[r], responses[r][1])

PastCall(r) == pc[r] \in {"await", "seg", "cite", "done"}

(***************************************************************************)
(* C6: every request makes at most one provider call, never a second one   *)
(* or a retry, and every request that is not rejected with 400 makes       *)
(* exactly one, /fetch-citations and /format-paper with a missing field    *)
(* included.                                                               *)
(***************************************************************************)
C6_OneCallPerAcceptedRequest ==
    \A r \in Requests :
        /\ Len(outbound[r]) <= 1
        /\ (PastCall(r) /\ ~Rejected(r)) => Len(outbound[r]) = 1

\* What C6 leaves when no interpolated field throws on conversion to a string
C6_HoldsWhenThePromptIsBuilt ==
    \A r \in Requests :
        /\ Len(outbound[r]) <= 1
        /\ (PastCall(r) /\ ~Rejected(r) /\ params[r] # NoParams) => Len(outbound[r]) = 1
        /\ (PastCall(r) /\ ~Rejected(r) /\ params[r] = NoParams) =>
              /\ outbound[r] = <<>>
              /\ Len(responses[r]) = 1
              /\ ServerError(responses[r][1])
        /\ (/\ endpoint[r] \in {"/fetch-citations", "/format-paper"}
            /\ \A k \in DOMAIN body[r] : ~ToStringThrows(body[r][k])
            /\ PastCall(r))
              => Len(outbound[r]) = 1

C7_SameInputsSameResponse ==
    \A r, q \in Requests :
        (/\ pc[r] = "done"
         /\ pc[q] = "done"
         /\ endpoint[r] = endpoint[q]
         /\ body[r] = body[q]
         /\ outcome[r] = outcome[q])
            => responses[r] = responses[q]

C7_OthersUntouched ==
    \A r \in Requests :
        (pc'[r] = pc[r] /\ idx'[r] = idx[r]) =>
            /\ currentSection'[r] = currentSection[r]
            /\ currentContent'[r] = currentContent[r]
            /\ sections'[r] = sections[r]
            /\ content'[r] = content[r]
            /\ outbound'[r] = outbound[r]
            /\ responses'[r] = responses[r]

(***************************************************************************)
(* C7: requests share no mutable state.  Under any interleaving, two       *)
(* requests to the same endpoint with the same body and the same provider  *)
(* reply get the same response, and a step of one request leaves the       *)
(* segmenter's cursor, accumulator and mapping of every other request,     *)
(* and its text, calls and responses, as they were.                        *)
(***************************************************************************)
C7_NoSharedState == []C7_SameInputsSameResponse /\ [][C7_OthersUntouched]_vars

\* Two /generate-paper requests with the same topic and the same reply were
\* both answered with their sections
C7_Witness ==
    /\ Segmented("r1")
    /\ Segmented("r2")
    /\ body["r1"] = body["r2"]
    /\ outcome["r1"] = outcome["r2"]
    /\ content["r1"] = ReorderText
    /\ Len(Paper("r1")) = 2



====
